---- MODULE Spec2Model ----
(***************************************************************************)
(* Company resolution of the Handelsregister scraper:                      *)
(* CompanyMatcher (scraper/hr_scraper/company_matcher.py) and the run of   *)
(* ScraperApp (scraper/hr_scraper/app.py) that drives it.                  *)
(*                                                                         *)
(* Python strings are TLA+ strings (TLC evaluates Len, SubSeq and \o on    *)
(* them); Optional[str] is <<>> for None and <<s>> for the string s.       *)
(* Python floats are exact rationals <<num, den>> in lowest terms: every   *)
(* quotient the code forms has operands far below 2^53, so the comparisons *)
(* the code makes on the rounded values agree with the exact ones.         *)
(*                                                                         *)
(* The fields of the CompanyMatcher object are the variable matcher; the   *)
(* helper methods are also called directly, as the test scripts do, with   *)
(* their arguments in the variable call.                                   *)
(***************************************************************************)
EXTENDS Integers, Sequences, FiniteSets, TLC

VARIABLES
    pc,                      \* position of the call being executed
    search_name,             \* find_best_match argument
    companies,               \* find_best_match argument: sequence of Company
    target_registration,     \* find_best_match argument: Optional[str]
    search_name_normalized,  \* local of find_best_match
    search_words,            \* local of find_best_match (a set)
    core_search_words,       \* local of find_best_match (only len/all are used)
    idx,                     \* number of candidates the for loop has consumed
    best_match,              \* 0 for None, else index into companies
    best_score,              \* rational
    scored,                  \* per consumed candidate: the loop body's locals
    ret,                     \* value returned by the finished call
    run,                     \* locals of ScraperApp.run (see InitRun)
    call,                    \* arguments of a direct call of a helper method
    matcher,                 \* fields of the CompanyMatcher object
    other                    \* frame of a second, suspended find_best_match

vars == <<pc, search_name, companies, target_registration,
          search_name_normalized, search_words, core_search_words,
          idx, best_match, best_score, scored, ret, run,
                   call, matcher, other>>

-----------------------------------------------------------------------------
(* Bounds of the model.                                                    *)

MaxCandidates == 2   \* longest candidate list of the curated family
MaxNameLen == 4      \* longest name of the exhaustive name family
MaxRegLen == 3       \* longest identifier of the exhaustive identifier family
WideCore == 1405     \* core words of the long query of SpecWide
WideFloor == 400     \* core words of the second long query of SpecWide
MaxLcsLen == 3       \* longest argument of a direct LCS call
MaxPairCandidates == 2  \* longest candidate list of two interleaved calls
MaxFaults == 2       \* most steps that fail in one run

-----------------------------------------------------------------------------
(* Optional values and Python truthiness.                                  *)

None == <<>>
Some(s) == <<s>>
Truthy(o) == o # None /\ o[1] # ""

-----------------------------------------------------------------------------
(* Rational arithmetic standing for Python's float arithmetic.             *)

RECURSIVE GCD(_, _)
GCD(a, b) == IF b = 0 THEN a ELSE GCD(b, a % b)

Abs(n) == IF n < 0 THEN -n ELSE n

Rat(n, d) ==
    LET g == GCD(Abs(n), d) IN <<n \div g, d \div g>>

RInt(n) == <<n, 1>>
RAdd(a, b) == Rat(a[1] * b[2] + b[1] * a[2], a[2] * b[2])
RMul(a, b) == Rat(a[1] * b[1], a[2] * b[2])
RLess(a, b) == a[1] * b[2] < b[1] * a[2]
RLeq(a, b) == a[1] * b[2] <= b[1] * a[2]
RMax(a, b) == IF RLess(a, b) THEN b ELSE a

-----------------------------------------------------------------------------
(* Python string primitives.                                               *)

CharAt(s, i) == SubSeq(s, i, i)
CharsOf(s) == {CharAt(s, i) : i \in 1..Len(s)}

UpperChars == "ABCDEFGHIJKLMNOPQRSTUVWXYZÄÖÜ"
LowerChars == "abcdefghijklmnopqrstuvwxyzäöü"
DigitChars == "0123456789"
UpperSet == CharsOf(UpperChars)
LowerSet == CharsOf(LowerChars)
DigitSet == CharsOf(DigitChars)

IsSpace(ch) == ch \in {" ", "\t", "\n"}
IsDigit(ch) == ch \in DigitSet
IsWord(ch) == ch \in UpperSet \cup LowerSet \cup DigitSet \cup {"_", "ß"}

ToLower(ch) ==
    IF ch \in UpperSet
    THEN CharAt(LowerChars, CHOOSE i \in 1..Len(UpperChars) : CharAt(UpperChars, i) = ch)
    ELSE ch

ToUpper(ch) ==
    IF ch \in LowerSet
    THEN CharAt(UpperChars, CHOOSE i \in 1..Len(LowerChars) : CharAt(LowerChars, i) = ch)
    ELSE IF ch = "ß" THEN "SS" ELSE ch

\* Concatenation of the strings f[lo], ..., f[hi], split in halves so that
\* the depth of the evaluation is logarithmic in the length.
RECURSIVE Cat(_, _, _)
Cat(f, lo, hi) ==
    IF lo > hi THEN ""
    ELSE IF lo = hi THEN f[lo]
    ELSE LET mid == (lo + hi) \div 2
         IN Cat(f, lo, mid) \o Cat(f, mid + 1, hi)

Lower(s) == Cat([i \in 1..Len(s) |-> ToLower(CharAt(s, i))], 1, Len(s))
Upper(s) == Cat([i \in 1..Len(s) |-> ToUpper(CharAt(s, i))], 1, Len(s))

\* str.strip()
Strip(s) ==
    LET n == Len(s)
    IN IF \A i \in 1..n : IsSpace(CharAt(s, i)) THEN ""
       ELSE LET a == CHOOSE i \in 1..n :
                        /\ ~IsSpace(CharAt(s, i))
                        /\ \A j \in 1..(i - 1) : IsSpace(CharAt(s, j))
                k == CHOOSE i \in 0..(n - 1) :
                        /\ ~IsSpace(CharAt(s, n - i))
                        /\ \A j \in 0..(i - 1) : IsSpace(CharAt(s, n - j))
            IN SubSeq(s, a, n - k)

\* p in s
Contains(s, p) ==
    \E i \in 0..(Len(s) - Len(p)) : SubSeq(s, i + 1, i + Len(p)) = p

\* s.replace(old, new), old non-empty: leftmost non-overlapping occurrences
RECURSIVE Replace(_, _, _)
Replace(s, old, new) ==
    IF ~Contains(s, old) THEN s
    ELSE LET i == CHOOSE k \in 1..(Len(s) - Len(old) + 1) :
                      /\ SubSeq(s, k, k + Len(old) - 1) = old
                      /\ \A j \in 1..(k - 1) : SubSeq(s, j, j + Len(old) - 1) # old
         IN SubSeq(s, 1, i - 1) \o new
              \o Replace(SubSeq(s, i + Len(old), Len(s)), old, new)

\* re.sub(r'\s+', ' ', s)
CollapseSpaces(s) ==
    Cat([i \in 1..Len(s) |->
            IF ~IsSpace(CharAt(s, i)) THEN CharAt(s, i)
            ELSE IF i > 1 /\ IsSpace(CharAt(s, i - 1)) THEN "" ELSE " "],
        1, Len(s))

\* re.sub(r'\s+', '', s)
RemoveSpaces(s) ==
    Cat([i \in 1..Len(s) |->
            IF IsSpace(CharAt(s, i)) THEN "" ELSE CharAt(s, i)], 1, Len(s))

\* re.sub(r'[^0-9]', '', s)
DigitsOnly(s) ==
    Cat([i \in 1..Len(s) |->
            IF IsDigit(CharAt(s, i)) THEN CharAt(s, i) ELSE ""], 1, Len(s))

\* re.sub(r'[^\w\s]', ' ', s)
PunctToSpace(s) ==
    Cat([i \in 1..Len(s) |->
            IF IsWord(CharAt(s, i)) \/ IsSpace(CharAt(s, i))
            THEN CharAt(s, i) ELSE " "], 1, Len(s))

\* set(s.split())
SplitWords(s) ==
    LET n == Len(s)
        starts == {i \in 1..n : /\ ~IsSpace(CharAt(s, i))
                                /\ (i = 1 \/ IsSpace(CharAt(s, i - 1)))}
        EndOf(i) == CHOOSE j \in i..n :
                        /\ j = n \/ IsSpace(CharAt(s, j + 1))
                        /\ \A k \in i..j : ~IsSpace(CharAt(s, k))
    IN {SubSeq(s, i, EndOf(i)) : i \in starts}

-----------------------------------------------------------------------------
(* CompanyMatcher: tables set up by __init__.                              *)

\* the fields assigned by __init__; legal_form_mappings is a dict in
\* insertion order: <<full form, abbreviation>>
CompanyMatcher ==
    LET mappings == <<
            <<"aktien", "ag">>,
            <<"gesellschaft mit beschränkter haftung", "gmbh">>,
            <<"gesellschaft mit beschraenkter haftung", "gmbh">>,
            <<"offene handelsgesellschaft", "ohg">>,
            <<"kommanditgesellschaft", "kg">>,
            <<"eingetragener verein", "ev">>,
            <<"eingetragene genossenschaft", "eg">>,
            <<"gesellschaft bürgerlichen rechts", "gbr">>,
            <<"gesellschaft buergerlichen rechts", "gbr">>,
            <<"partnerschaftsgesellschaft", "partg">>,
            <<"europäische wirtschaftliche interessenvereinigung", "ewiv">>,
            <<"europaeische wirtschaftliche interessenvereinigung", "ewiv">>,
            <<"europäische aktiengesellschaft", "se">>,
            <<"europaeische aktiengesellschaft", "se">> >>
    IN [legal_form_mappings |-> mappings,
        legal_forms |-> {mappings[i][2] : i \in 1..Len(mappings)},
        noise_words |-> <<"hrb", "amtsgericht", "register", "handelsregister",
                          "commercial register">>]

\* self.legal_form_mappings, self.legal_forms, self.noise_words
legal_form_mappings == matcher.legal_form_mappings
legal_forms == matcher.legal_forms
noise_words == matcher.noise_words

-----------------------------------------------------------------------------
(* CompanyMatcher._longest_common_subsequence: the dp table, row by row.   *)
(* A row is a sequence whose element j + 1 is dp[i][j].                    *)

\* variant: on a mismatch only dp[i][j-1] is taken
RECURSIVE LcsRowUpToLeftOnly(_, _, _, _, _)
LcsRowUpToLeftOnly(s1, s2, i, prev, j) ==
    IF j = 0 THEN <<0>>
    ELSE LET left == LcsRowUpToLeftOnly(s1, s2, i, prev, j - 1)
         IN Append(left,
                   IF CharAt(s1, i) = CharAt(s2, j)
                   THEN prev[j] + 1
                   ELSE left[j])

RECURSIVE LcsRowUpTo(_, _, _, _, _)
LcsRowUpTo(s1, s2, i, prev, j) ==
    IF j = 0 THEN <<0>>
    ELSE LET left == LcsRowUpTo(s1, s2, i, prev, j - 1)
         IN Append(left,
                   IF CharAt(s1, i) = CharAt(s2, j)
                   THEN prev[j] + 1
                   ELSE IF prev[j + 1] >= left[j] THEN prev[j + 1] ELSE left[j])

\* Row i - 1 is complete before row i is started (the test on its length
\* makes the evaluation finish it first), as in the nested for loops.
RECURSIVE LcsRow(_, _, _)
LcsRow(s1, s2, i) ==
    IF i = 0 THEN [j \in 1..(Len(s2) + 1) |-> 0]
    ELSE LET prev == LcsRow(s1, s2, i - 1)
         IN IF Len(prev) = Len(s2) + 1
            THEN LcsRowUpTo(s1, s2, i, prev, Len(s2))
            ELSE prev

longest_common_subsequence(s1, s2) == LcsRow(s1, s2, Len(s1))[Len(s2) + 1]

-----------------------------------------------------------------------------
(* CompanyMatcher._normalize_registration_number and                       *)
(* CompanyMatcher._calculate_registration_similarity.                      *)

normalize_registration_number(hrb) ==
    IF hrb = "" THEN "" ELSE RemoveSpaces(Upper(hrb))

\* lcs / max_len if max_len > 0 else 0.0
LcsRatio(a, b) ==
    LET max_length == IF Len(a) >= Len(b) THEN Len(a) ELSE Len(b)
    IN IF max_length > 0
       THEN Rat(longest_common_subsequence(a, b), max_length)
       ELSE RInt(0)

\* variant: the digit comparison made before the containment test
calculate_registration_similarity_digits_first(target_hrb, company_hrb) ==
    IF ~Truthy(target_hrb) \/ ~Truthy(company_hrb) THEN RInt(0)
    ELSE LET target_norm == normalize_registration_number(target_hrb[1])
             company_norm == normalize_registration_number(company_hrb[1])
             target_digits == DigitsOnly(target_norm)
             company_digits == DigitsOnly(company_norm)
         IN IF target_norm = company_norm THEN RInt(1)
            ELSE IF target_digits = company_digits THEN Rat(95, 100)
            ELSE IF Contains(company_norm, target_norm)
                    \/ Contains(target_norm, company_norm) THEN Rat(9, 10)
            ELSE RMax(LcsRatio(target_norm, company_norm),
                      LcsRatio(target_digits, company_digits))

calculate_registration_similarity(target_hrb, company_hrb) ==
    IF ~Truthy(target_hrb) \/ ~Truthy(company_hrb) THEN RInt(0)
    ELSE LET target_norm == normalize_registration_number(target_hrb[1])
             company_norm == normalize_registration_number(company_hrb[1])
             target_digits == DigitsOnly(target_norm)
             company_digits == DigitsOnly(company_norm)
         IN IF target_norm = company_norm THEN RInt(1)
            ELSE IF Contains(company_norm, target_norm)
                    \/ Contains(target_norm, company_norm) THEN Rat(9, 10)
            ELSE IF target_digits = company_digits THEN Rat(95, 100)
            ELSE RMax(LcsRatio(target_norm, company_norm),
                      LcsRatio(target_digits, company_digits))

-----------------------------------------------------------------------------
(* CompanyMatcher.normalize_company_name.                                  *)

\* lines 95-96, for the first k entries of the dict mappings
RECURSIVE FoldLegalForms(_, _, _)
FoldLegalForms(mappings, s, k) ==
    IF k = 0 THEN s
    ELSE Replace(FoldLegalForms(mappings, s, k - 1),
                 mappings[k][1], mappings[k][2])

\* lines 97-98, for the first k entries of the list words
RECURSIVE DropNoise(_, _, _)
DropNoise(words, s, k) ==
    IF k = 0 THEN s
    ELSE Replace(DropNoise(words, s, k - 1), words[k], "")

\* the method on an object whose fields are self
NormalizeWith(self, name) ==
    LET name_lower == Strip(Lower(name))
        folded == FoldLegalForms(self.legal_form_mappings, name_lower,
                                 Len(self.legal_form_mappings))
        denoised == DropNoise(self.noise_words, folded, Len(self.noise_words))
    IN Strip(CollapseSpaces(PunctToSpace(denoised)))

normalize_company_name(name) == NormalizeWith(matcher, name)

-----------------------------------------------------------------------------
(* CompanyMatcher.find_best_match: the scoring of one candidate.           *)

\* variant: the core-word rule without the test that core words exist
name_score_unguarded(q, sw, csw, company_normalized) ==
    LET company_words == SplitWords(company_normalized)
        common_words == sw \cap company_words
        nq == Cardinality(sw)
        nc == Cardinality(company_words)
    IN IF q = company_normalized THEN RInt(100)
       ELSE IF \A word \in csw : Contains(company_normalized, word)
            THEN RInt(95 + Cardinality(csw))
       ELSE IF Contains(company_normalized, q)
            THEN RAdd(RInt(90), RMul(Rat(Len(q), Len(company_normalized)), RInt(5)))
       ELSE IF Contains(q, company_normalized)
            THEN RAdd(RInt(80), RMul(Rat(Len(company_normalized), Len(q)), RInt(5)))
       ELSE IF common_words # {}
            THEN RMul(Rat(Cardinality(common_words), IF nq >= nc THEN nq ELSE nc),
                      RInt(60))
       ELSE RInt(0)

\* lines 119-136; sw and csw are search_words and core_search_words
name_score(q, sw, csw, company_normalized) ==
    LET company_words == SplitWords(company_normalized)
        common_words == sw \cap company_words
        nq == Cardinality(sw)
        nc == Cardinality(company_words)
    IN IF q = company_normalized THEN RInt(100)
       ELSE IF csw # {} /\ \A word \in csw : Contains(company_normalized, word)
            THEN RInt(95 + Cardinality(csw))
       ELSE IF Contains(company_normalized, q)
            THEN RAdd(RInt(90), RMul(Rat(Len(q), Len(company_normalized)), RInt(5)))
       ELSE IF Contains(q, company_normalized)
            THEN RAdd(RInt(80), RMul(Rat(Len(company_normalized), Len(q)), RInt(5)))
       ELSE IF common_words # {}
            THEN RMul(Rat(Cardinality(common_words), IF nq >= nc THEN nq ELSE nc),
                      RInt(60))
       ELSE RInt(0)

\* variant: the divisors with the exact-match rule of line 121 left out
name_score_divisor_no_exact(q, sw, csw, company_normalized) ==
    LET company_words == SplitWords(company_normalized)
        common_words == sw \cap company_words
        nq == Cardinality(sw)
        nc == Cardinality(company_words)
    IN IF csw # {} /\ \A word \in csw : Contains(company_normalized, word)
            THEN 1
       ELSE IF Contains(company_normalized, q) THEN Len(company_normalized)
       ELSE IF Contains(q, company_normalized) THEN Len(q)
       ELSE IF common_words # {} THEN IF nq >= nc THEN nq ELSE nc
       ELSE 1

\* lines 121-136: the divisor of the quotient that the rule taken forms
\* (line 128, 131 or 136), and 1 where the rule taken forms no quotient
name_score_divisor(q, sw, csw, company_normalized) ==
    LET company_words == SplitWords(company_normalized)
        common_words == sw \cap company_words
        nq == Cardinality(sw)
        nc == Cardinality(company_words)
    IN IF q = company_normalized THEN 1
       ELSE IF csw # {} /\ \A word \in csw : Contains(company_normalized, word)
            THEN 1
       ELSE IF Contains(company_normalized, q) THEN Len(company_normalized)
       ELSE IF Contains(q, company_normalized) THEN Len(q)
       ELSE IF common_words # {} THEN IF nq >= nc THEN nq ELSE nc
       ELSE 1

\* variant: the third tier starts at 0.7
BonusOfSimilarityShifted(similarity) ==
    IF RLeq(Rat(95, 100), similarity) THEN 1000
    ELSE IF RLeq(Rat(8, 10), similarity) THEN 800
    ELSE IF RLeq(Rat(7, 10), similarity) THEN 500
    ELSE IF RLeq(Rat(4, 10), similarity) THEN 200
    ELSE 50

\* lines 144-153
BonusOfSimilarity(similarity) ==
    IF RLeq(Rat(95, 100), similarity) THEN 1000
    ELSE IF RLeq(Rat(8, 10), similarity) THEN 800
    ELSE IF RLeq(Rat(6, 10), similarity) THEN 500
    ELSE IF RLeq(Rat(4, 10), similarity) THEN 200
    ELSE 50

\* lines 139-161
registration_bonus(target, hrb) ==
    IF Truthy(target) /\ Truthy(hrb)
    THEN BonusOfSimilarity(calculate_registration_similarity(target, hrb))
    ELSE IF Truthy(hrb) THEN 100
    ELSE -50

\* line 163
final_score(bonus, ns) == RAdd(RInt(bonus), RMul(ns, Rat(1, 10)))

-----------------------------------------------------------------------------
(* ScraperApp._extract_hrb_from_input.                                     *)

ALL_REGISTRATION_PREFIXES ==
    <<"HRB", "HRA", "PR", "GNR", "VR", "GÜR", "EWIV", "SE", "SCE", "SPE">>

IsAsciiLetter(ch) ==
    ch \in CharsOf("abcdefghijklmnopqrstuvwxyzABCDEFGHIJKLMNOPQRSTUVWXYZ")

\* the text at position i of s is p, letter case ignored
MatchesAt(s, i, p) ==
    /\ i + Len(p) - 1 <= Len(s)
    /\ Lower(SubSeq(s, i, i + Len(p) - 1)) = Lower(p)

\* the first prefix of the list found at position i of s (0 for none)
PrefixAt(s, i) ==
    LET found == {k \in 1..Len(ALL_REGISTRATION_PREFIXES) :
                     MatchesAt(s, i, ALL_REGISTRATION_PREFIXES[k])}
    IN IF found = {} THEN 0
       ELSE CHOOSE k \in found : \A m \in found : k <= m

\* variant: up to nine digits
ValidRegistrationFormatNine(cleaned) ==
    \E d \in 1..9 :
        /\ d <= Len(cleaned)
        /\ \A i \in 1..d : IsDigit(CharAt(cleaned, i))
        /\ \/ Len(cleaned) = d
           \/ Len(cleaned) = d + 1 /\ IsAsciiLetter(CharAt(cleaned, d + 1))

\* ^\d{1,8}[a-zA-Z]?$
ValidRegistrationFormat(cleaned) ==
    \E d \in 1..8 :
        /\ d <= Len(cleaned)
        /\ \A i \in 1..d : IsDigit(CharAt(cleaned, i))
        /\ \/ Len(cleaned) = d
           \/ Len(cleaned) = d + 1 /\ IsAsciiLetter(CharAt(cleaned, d + 1))

\* variant: the letter suffix kept as typed
ExtractExplicitAsTyped(registration_number) ==
    LET given == Strip(Lower(registration_number))
        k == PrefixAt(given, 1)
        stripped == IF k = 0 THEN given
                    ELSE SubSeq(given, Len(ALL_REGISTRATION_PREFIXES[k]) + 1,
                                Len(given))
        cleaned == RemoveSpaces(stripped)
    IN IF ValidRegistrationFormat(cleaned)
       THEN Some((IF k = 0 THEN "HRB" ELSE ALL_REGISTRATION_PREFIXES[k])
                     \o " " \o cleaned)
       ELSE None

\* lines 220-239: an explicit registration number
ExtractExplicit(registration_number) ==
    LET given == Strip(Lower(registration_number))
        k == PrefixAt(given, 1)
        stripped == IF k = 0 THEN given
                    ELSE SubSeq(given, Len(ALL_REGISTRATION_PREFIXES[k]) + 1,
                                Len(given))
        cleaned == RemoveSpaces(stripped)
    IN IF ValidRegistrationFormat(cleaned)
       THEN Some((IF k = 0 THEN "HRB" ELSE ALL_REGISTRATION_PREFIXES[k])
                     \o " " \o Upper(cleaned))
       ELSE None

\* first index from j on that holds no whitespace (Len(s) + 1 for none)
SkipSpaces(s, j) ==
    CHOOSE e \in j..(Len(s) + 1) :
        /\ \A i \in j..(e - 1) : IsSpace(CharAt(s, i))
        /\ e = Len(s) + 1 \/ ~IsSpace(CharAt(s, e))

\* (\d{1,8})\s*([a-zA-Z])? matched at the digit at position j
NumberAndLetter(s, j) ==
    LET e == CHOOSE x \in j..(j + 7) :
                 /\ x <= Len(s)
                 /\ \A i \in j..x : IsDigit(CharAt(s, i))
                 /\ x = j + 7 \/ x = Len(s) \/ ~IsDigit(CharAt(s, x + 1))
        a == SkipSpaces(s, e + 1)
    IN [number |-> SubSeq(s, j, e),
        letter |-> IF a <= Len(s) /\ IsAsciiLetter(CharAt(s, a))
                   THEN CharAt(s, a) ELSE ""]

\* where the digits begin if (PREFIX)\s*:?\s*(\d{1,8}) matches at position i
\* (0 if it does not)
PrefixedNumberAt(s, i) ==
    LET k == PrefixAt(s, i)
    IN IF k = 0 THEN 0
       ELSE LET a == SkipSpaces(s, i + Len(ALL_REGISTRATION_PREFIXES[k]))
                b == IF a <= Len(s) /\ CharAt(s, a) = ":" THEN a + 1 ELSE a
                c == SkipSpaces(s, b)
            IN IF c <= Len(s) /\ IsDigit(CharAt(s, c)) THEN c ELSE 0

\* lines 241-280: a registration number inside the company name
ExtractFromName(company_name) ==
    LET n == Len(company_name)
        prefixed == {i \in 1..n : PrefixedNumberAt(company_name, i) # 0}
        digits == {i \in 1..n : IsDigit(CharAt(company_name, i))}
    IN IF prefixed # {}
       THEN LET i == CHOOSE x \in prefixed : \A y \in prefixed : x <= y
                m == NumberAndLetter(company_name,
                                     PrefixedNumberAt(company_name, i))
            IN Some(Upper(ALL_REGISTRATION_PREFIXES[PrefixAt(company_name, i)])
                        \o " " \o m.number \o Upper(m.letter))
       ELSE IF digits # {}
       THEN LET j == CHOOSE x \in digits : \A y \in digits : x <= y
                m == NumberAndLetter(company_name, j)
            IN Some("HRB " \o m.number \o Upper(m.letter))
       ELSE None

\* variant: an explicit number of invalid format falls through to the name
extract_hrb_from_input_fallthrough(company_name, registration_number) ==
    IF Truthy(registration_number)
       /\ ExtractExplicit(registration_number[1]) # None
    THEN ExtractExplicit(registration_number[1])
    ELSE ExtractFromName(company_name)

extract_hrb_from_input(company_name, registration_number) ==
    IF Truthy(registration_number)
    THEN ExtractExplicit(registration_number[1])
    ELSE ExtractFromName(company_name)

-----------------------------------------------------------------------------
(* Inputs.                                                                 *)

Company(name, hrb) == [name |-> name, hrb |-> hrb]

\* all strings over the characters of alphabet with at most n characters
RECURSIVE StringsUpTo(_, _)
StringsUpTo(alphabet, n) ==
    IF n = 0 THEN {""}
    ELSE LET shorter == StringsUpTo(alphabet, n - 1)
         IN shorter \cup {s \o c : s \in shorter, c \in alphabet}

\* all sequences over S with at most n elements
RECURSIVE SeqsUpTo(_, _)
SeqsUpTo(S, n) ==
    IF n = 0 THEN {<<>>}
    ELSE LET shorter == SeqsUpTo(S, n - 1)
         IN shorter \cup {Append(q, x) : q \in shorter, x \in S}

Opt(S) == {None} \cup {Some(s) : s \in S}

\* curated family: the names and identifiers of the documented examples
MatchNames == {"Acme GmbH", "Acme Holding GmbH", "Unrelated Inc", ""}
MatchHrbs == Opt({"259 502", "999999", "HRB 777"})
MatchQueries == {"Acme GmbH", "Unrelated"}
MatchTargets == Opt({"259502"})
MatchCompanies == {Company(n, h) : n \in MatchNames, h \in MatchHrbs}

\* exhaustive name family: names that are their own canonical form, and a
\* few longer ones
NameAlphabet == {"a", "g", " "}
LongNames == {"a b c d e f", "a b c d e f g", "b c d e f", "a b c d e", " "}
CanonNames ==
    {s \in StringsUpTo(NameAlphabet, MaxNameLen) :
        NormalizeWith(CompanyMatcher, s) = s}
PairNames == CanonNames \cup LongNames

\* exhaustive identifier family
RegAlphabet == {"1", "2", "h", " "}
RegStrings == Opt(StringsUpTo(RegAlphabet, MaxRegLen))
TierTargets == Opt(StringsUpTo(RegAlphabet, MaxRegLen - 1))

NoRun == [active |-> FALSE]
NoRet == [kind |-> "none"]
NoCall == [fn |-> "none"]
NoOther == [active |-> FALSE]

\* a new CompanyMatcher, no helper called directly, no second call
Constructed ==
    /\ matcher = CompanyMatcher
    /\ call = NoCall
    /\ other = NoOther

\* locals before the call has started
Fresh ==
    /\ search_name_normalized = ""
    /\ search_words = {}
    /\ core_search_words = {}
    /\ idx = 0
    /\ best_match = 0
    /\ best_score = RInt(0)
    /\ scored = <<>>
    /\ ret = NoRet

\* find_best_match(search_name, companies, target_registration)
InitMatch ==
    /\ Constructed
    /\ pc = "call"
    /\ search_name \in MatchQueries
    /\ target_registration \in MatchTargets
    /\ companies \in SeqsUpTo(MatchCompanies, MaxCandidates)
    /\ run = NoRun
    /\ Fresh

\* find_best_match(q, [Company(c, "1")])
InitName ==
    /\ Constructed
    /\ pc = "call"
    /\ search_name \in PairNames
    /\ target_registration = None
    /\ companies \in {<<Company(c, Some("1"))>> : c \in PairNames}
    /\ run = NoRun
    /\ Fresh

\* find_best_match("acme", [Company("acme", h)], t)
InitTier ==
    /\ Constructed
    /\ pc = "call"
    /\ search_name = "acme"
    /\ target_registration \in TierTargets
    /\ companies \in {<<Company("acme", h)>> : h \in RegStrings}
    /\ run = NoRun
    /\ Fresh

\* _calculate_registration_similarity(t, h), called as the test scripts do
InitSimilarity ==
    /\ Constructed
    /\ pc = "similarity_call"
    /\ search_name = ""
    /\ target_registration \in RegStrings
    /\ companies \in {<<Company("", h)>> : h \in RegStrings}
    /\ run = NoRun
    /\ Fresh

\* ranking family: queries of five and six core words, names that contain
\* them, and names whose canonical form is empty
RankQueries == {"a b c d e", "a b c d e f", "hrb", "a"}
RankNames == {"a b c d e", "a b c d e f", "a b c d e f g", "hrb", "-"}
RankCompanies == {Company(n, Some("1")) : n \in RankNames}

\* find_best_match(q, [Company(a, "1"), Company(b, "1")])
InitRank ==
    /\ Constructed
    /\ pc = "call"
    /\ search_name \in RankQueries
    /\ target_registration = None
    /\ companies \in SeqsUpTo(RankCompanies, MaxCandidates)
    /\ run = NoRun
    /\ Fresh

\* identifiers without a digit, and identifiers with the same digits
LetterRegistrations == {"AB", "CD", "A1", "1B", "HRB 1", "HRA 1"}

\* _calculate_registration_similarity(t, h) on the identifiers above
InitLetters ==
    /\ Constructed
    /\ pc = "similarity_call"
    /\ search_name = ""
    /\ target_registration \in Opt(LetterRegistrations)
    /\ companies \in {<<Company("", Some(h))>> : h \in LetterRegistrations}
    /\ run = NoRun
    /\ Fresh

-----------------------------------------------------------------------------
(* CompanyMatcher.find_best_match.                                         *)

\* lines 104-110
Begin ==
    /\ pc = "call"
    /\ LET q == normalize_company_name(search_name)
           words == SplitWords(q)
       IN /\ search_name_normalized' = q
          /\ search_words' = words
          /\ core_search_words' = {word \in words : word \notin legal_forms}
    /\ best_match' = 0
    /\ best_score' = RInt(-1)
    /\ idx' = 0
    /\ scored' = <<>>
    /\ pc' = "loop"
    /\ UNCHANGED <<search_name, companies, target_registration, ret, run,
                   call, matcher, other>>

\* variant: final_score >= best_score
BetterOrEqual(fs, bs) == RLeq(bs, fs)

\* line 167: final_score > best_score
Better(fs, bs) == RLess(bs, fs)

\* lines 112-169: one iteration of the for loop; a division by zero on
\* line 128, 131 or 136 raises ZeroDivisionError out of find_best_match
ScoreCandidate ==
    /\ pc = "loop"
    /\ idx < Len(companies)
    /\ idx' = idx + 1
    /\ LET company == companies[idx + 1]
       IN IF company.name = ""
          THEN /\ scored' = Append(scored, [skipped |-> TRUE])
               /\ UNCHANGED <<pc, ret, best_match, best_score>>
          ELSE LET company_normalized == normalize_company_name(company.name)
                   divisor == name_score_divisor(
                                  search_name_normalized, search_words,
                                  core_search_words, company_normalized)
                   ns == name_score(search_name_normalized, search_words,
                                    core_search_words, company_normalized)
                   bonus == registration_bonus(target_registration, company.hrb)
                   fs == final_score(bonus, ns)
               IN IF divisor = 0
                  THEN /\ pc' = IF run.active THEN "run_exit" ELSE "raised"
                       /\ ret' = [kind |-> "exception",
                                  type |-> "ZeroDivisionError"]
                       /\ UNCHANGED <<scored, best_match, best_score>>
                  ELSE /\ scored' = Append(scored,
                                       [skipped |-> FALSE,
                                        company_normalized |-> company_normalized,
                                        name_score |-> ns,
                                        registration_bonus |-> bonus,
                                        final_score |-> fs])
                       /\ IF Better(fs, best_score)
                          THEN best_score' = fs /\ best_match' = idx + 1
                          ELSE UNCHANGED <<best_match, best_score>>
                       /\ UNCHANGED <<pc, ret>>
    /\ UNCHANGED <<search_name, companies, target_registration,
                   search_name_normalized, search_words, core_search_words,
                   run, call, matcher, other>>

\* variant: the candidate list is cut down to the winner
ReturnTrimmed ==
    /\ pc = "loop"
    /\ idx = Len(companies)
    /\ ret' = [kind |-> "company", index |-> IF best_match = 0 THEN 0 ELSE 1]
    /\ companies' = IF best_match = 0 THEN <<>> ELSE <<companies[best_match]>>
    /\ pc' = IF run.active THEN "run_returned" ELSE "done"
    /\ UNCHANGED <<search_name, target_registration,
                   search_name_normalized, search_words, core_search_words,
                   idx, best_match, best_score, scored, run,
                   call, matcher, other>>

\* lines 171-176
Return ==
    /\ pc = "loop"
    /\ idx = Len(companies)
    /\ ret' = [kind |-> "company", index |-> best_match]
    /\ pc' = IF run.active THEN "run_returned" ELSE "done"
    /\ UNCHANGED <<search_name, companies, target_registration,
                   search_name_normalized, search_words, core_search_words,
                   idx, best_match, best_score, scored, run,
                   call, matcher, other>>

\* a direct call of _calculate_registration_similarity (lines 52-91)
SimilarityCall ==
    /\ pc = "similarity_call"
    /\ ret' = [kind |-> "similarity",
               value |-> calculate_registration_similarity(
                             target_registration, companies[1].hrb)]
    /\ pc' = "done"
    /\ UNCHANGED <<search_name, companies, target_registration,
                   search_name_normalized, search_words, core_search_words,
                   idx, best_match, best_score, scored, run,
                   call, matcher, other>>

\* the state around a direct call of a helper: no find_best_match, no run
Idle ==
    /\ matcher = CompanyMatcher
    /\ other = NoOther
    /\ search_name = ""
    /\ target_registration = None
    /\ companies = <<>>
    /\ run = NoRun
    /\ Fresh

\* _longest_common_subsequence(s1, s2)
LcsAlphabet == {"1", "2", "H"}
InitLcs ==
    /\ pc = "lcs_call"
    /\ call \in [fn : {"_longest_common_subsequence"},
                 s1 : StringsUpTo(LcsAlphabet, MaxLcsLen),
                 s2 : StringsUpTo(LcsAlphabet, MaxLcsLen)]
    /\ Idle

\* lines 29-44
LcsCall ==
    /\ pc = "lcs_call"
    /\ ret' = [kind |-> "length",
               value |-> longest_common_subsequence(call.s1, call.s2)]
    /\ pc' = "done"
    /\ UNCHANGED <<search_name, companies, target_registration,
                   search_name_normalized, search_words, core_search_words,
                   idx, best_match, best_score, scored, run,
                   call, matcher, other>>

\* s has no umlaut and no sharp s
IsAscii(s) == \A i \in 1..Len(s) : CharAt(s, i) \notin CharsOf("äöüÄÖÜß")

\* normalize_company_name(name): a name with each full legal form, each
\* abbreviation and each noise word, and names with irregular spacing.
\* The names are ASCII; the table spells every form that has an umlaut a
\* second time without it.
NormalizeBase == "Acme"
NormalizeNames ==
    {NormalizeBase, "Acme AG", "Acme Aktiengesellschaft", "Acme HRA",
     "Acme Gesellschaft mit  beschraenkter Haftung", "hhrbrb",
     "Acme   GmbH & Co. KG", "Fahrbetrieb GmbH", ""}
    \cup {NormalizeBase \o " " \o form :
              form \in {CompanyMatcher.legal_form_mappings[k][j] :
                           k \in 1..Len(CompanyMatcher.legal_form_mappings),
                           j \in 1..2}}
    \cup {NormalizeBase \o " " \o CompanyMatcher.noise_words[k] :
              k \in 1..Len(CompanyMatcher.noise_words)}

InitNormalize ==
    /\ pc = "normalize_call"
    /\ call \in [fn : {"normalize_company_name"},
                 name : {n \in NormalizeNames : IsAscii(n)}]
    /\ Idle

\* lines 93-101
NormalizeCall ==
    /\ pc = "normalize_call"
    /\ ret' = [kind |-> "name", value |-> normalize_company_name(call.name)]
    /\ pc' = "done"
    /\ UNCHANGED <<search_name, companies, target_registration,
                   search_name_normalized, search_words, core_search_words,
                   idx, best_match, best_score, scored, run,
                   call, matcher, other>>

\* _extract_hrb_from_input("", registration_number): the written forms of
\* the scripts, and every prefix spelling, separator and body of the lists
ExplicitPrefixes ==
    {"", "HRB", "hrb", "HRA", "hra", "PR", "pr", "GNR", "GnR", "VR", "vr",
     "GUR", "gur", "EWIV", "ewiv", "SE", "se", "SCE", "sce", "SPE", "spe"}
ExplicitSeparators == {"", " ", ":", ": ", " : "}
ExplicitBodies ==
    {"259502", "259 502", "259502A", "259 502 a", "1", "12345678",
     "123456789", "1234AB", "abc", ""}
ExplicitInputs ==
    {p \o sep \o b : p \in ExplicitPrefixes, sep \in ExplicitSeparators,
                     b \in ExplicitBodies}
    \cup {" 12 ", "h rb 1", "hrb hrb 1", "1a2"}

InitExtract ==
    /\ pc = "extract_call"
    /\ call \in [fn : {"_extract_hrb_from_input"},
                 company_name : {""},
                 registration_number : Opt(ExplicitInputs)]
    /\ Idle

\* lines 207-280
ExtractCall ==
    /\ pc = "extract_call"
    /\ ret' = [kind |-> "registration",
               value |-> extract_hrb_from_input(call.company_name,
                                                call.registration_number)]
    /\ pc' = "done"
    /\ UNCHANGED <<search_name, companies, target_registration,
                   search_name_normalized, search_words, core_search_words,
                   idx, best_match, best_score, scored, run,
                   call, matcher, other>>

Init == InitMatch \/ InitName \/ InitTier \/ InitSimilarity \/ InitLcs
           \/ InitNormalize \/ InitExtract \/ InitRank \/ InitLetters

\* long names: the query "1 2 3 ... n" of n distinct words, and the single
\* word "123...n" that contains each of them
WideQuery(n) ==
    Cat([i \in 1..n |-> IF i = 1 THEN ToString(i) ELSE " " \o ToString(i)], 1, n)
WideName(n) == Cat([i \in 1..n |-> ToString(i)], 1, n)

WideTierCompanies ==
    {Company("zzz", Some("1122")), Company(WideName(WideCore), Some("222"))}
WideFloorCompanies ==
    {Company("zzz", Some("1122")), Company(WideName(WideFloor), None),
     Company("1", None)}

\* find_best_match with a query of WideCore or of WideFloor core words
InitWide ==
    /\ Constructed
    /\ pc = "call"
    /\ \/ /\ search_name = WideQuery(WideCore)
          /\ target_registration = Some("1133")
          /\ companies \in SeqsUpTo(WideTierCompanies, 2)
       \/ /\ search_name = WideQuery(WideFloor)
          /\ target_registration \in Opt({"1133"})
          /\ companies \in SeqsUpTo(WideFloorCompanies, 2)
    /\ run = NoRun
    /\ Fresh

Next == Begin \/ ScoreCandidate \/ Return \/ SimilarityCall \/ LcsCall
           \/ NormalizeCall \/ ExtractCall

Spec == Init /\ [][Next]_vars

\* find_best_match alone
NextMatch == Begin \/ ScoreCandidate \/ Return

SpecWide == InitWide /\ [][NextMatch]_vars

-----------------------------------------------------------------------------
(* Two calls of find_best_match on one CompanyMatcher, interleaved.  The   *)
(* variables of find_best_match hold the frame of the running call, other  *)
(* holds the frame of the suspended one, and Switch exchanges them; the    *)
(* fields of the CompanyMatcher are shared.                                *)

PairQueries == {"Acme GmbH"}
PairTargets == Opt({"999999"})
PairCompanies ==
    {Company("Acme GmbH", Some("259 502")),
     Company("Acme Holding GmbH", Some("999999"))}
PairArguments ==
    [search_name : PairQueries,
     companies : SeqsUpTo(PairCompanies, MaxPairCandidates),
     target_registration : PairTargets]

\* the frame of a call with the arguments a, before its first statement
NewFrame(id, a) ==
    [active |-> TRUE, id |-> id, interleaved |-> FALSE, pc |-> "call",
     search_name |-> a.search_name, companies |-> a.companies,
     target_registration |-> a.target_registration,
     search_name_normalized |-> "", search_words |-> {},
     core_search_words |-> {}, idx |-> 0, best_match |-> 0,
     best_score |-> RInt(0), scored |-> <<>>, ret |-> NoRet]

InitPair ==
    /\ matcher = CompanyMatcher
    /\ \E a1 \in PairArguments, a2 \in PairArguments :
           /\ call = [fn |-> "find_best_match", args |-> <<a1, a2>>]
           /\ other = NewFrame(2, a2)
           /\ search_name = a1.search_name
           /\ companies = a1.companies
           /\ target_registration = a1.target_registration
    /\ pc = "call"
    /\ run = NoRun
    /\ Fresh

\* the scheduler suspends the running call and resumes the other one
Switch ==
    /\ other.active
    /\ other' = [active |-> TRUE, id |-> 3 - other.id,
                 interleaved |-> other.interleaved
                                 \/ (pc = "loop" /\ other.pc = "loop"),
                 pc |-> pc, search_name |-> search_name,
                 companies |-> companies,
                 target_registration |-> target_registration,
                 search_name_normalized |-> search_name_normalized,
                 search_words |-> search_words,
                 core_search_words |-> core_search_words, idx |-> idx,
                 best_match |-> best_match, best_score |-> best_score,
                 scored |-> scored, ret |-> ret]
    /\ pc' = other.pc
    /\ search_name' = other.search_name
    /\ companies' = other.companies
    /\ target_registration' = other.target_registration
    /\ search_name_normalized' = other.search_name_normalized
    /\ search_words' = other.search_words
    /\ core_search_words' = other.core_search_words
    /\ idx' = other.idx
    /\ best_match' = other.best_match
    /\ best_score' = other.best_score
    /\ scored' = other.scored
    /\ ret' = other.ret
    /\ UNCHANGED <<run, call, matcher>>

NextPair == Begin \/ ScoreCandidate \/ Return \/ Switch

SpecPair == InitPair /\ [][NextPair]_vars

-----------------------------------------------------------------------------
(* ScraperApp.run (app.py lines 22-205) with the BrowserManager, the       *)
(* Navigator and the DataExtractor it drives.  The site and the browser    *)
(* are the environment of a run: run.env holds the rows the results page   *)
(* can deliver, the texts of the document links in the rows that carry the *)
(* matched registration number, and the steps that fail in this run.       *)

NO_COMPANIES == "No companies found on the results page after multiple retries."
NO_MATCH == "No suitable company match found."
NO_DOCUMENT_PROCESSED == "Failed to process any documents."
NoRegistration(name) ==
    "Cannot process company '" \o name \o "' without a registration number."

\* models.py lines 5-13: the values of the enum
DocumentType == <<"AD", "CD", "HD", "DK", "UT", "VÖ", "SI">>

\* the elements of a sequence
Range(q) == {q[i] : i \in 1..Len(q)}

\* repr of a list of strings
RECURSIVE ListItems(_, _)
ListItems(q, k) ==
    IF k = 0 THEN ""
    ELSE ListItems(q, k - 1) \o (IF k = 1 THEN "" ELSE ", ")
             \o "'" \o q[k] \o "'"

\* line 118: the requested types as the message shows them
RequestedRepr(document_types) ==
    IF document_types # None /\ document_types[1] # <<>>
    THEN "[" \o ListItems(document_types[1], Len(document_types[1])) \o "]"
    ELSE "all"

NoDocuments(name, document_types) ==
    "No documents found for '" \o name \o "' with requested types: "
        \o RequestedRepr(document_types)

\* lines 44-51
InitialResult ==
    [success |-> FALSE, error |-> None, retry_recommended |-> FALSE,
     company_info |-> None, documents |-> <<>>,
     debug_info |-> [keys |-> {}, document_errors |-> <<>>]]

\* browser_manager.py lines 10-12
NoBrowser == [playwright |-> "none", browser |-> "none", page |-> "none"]

\* the steps of a run that the environment can make fail
EnterSteps == <<"start", "launch", "new_page", "set_extra_http_headers">>
ExitSteps == <<"page.close", "browser.close", "playwright.stop">>
DocumentSteps == <<"download_document", "save_as", "extract_content_from_bytes">>
FaultPoints ==
    Range(EnterSteps) \cup Range(ExitSteps)
    \cup {"go_to_homepage", "go_to_search_page", "perform_search",
          "extract_companies", "extract_documents_for_company",
          "get_ui_messages"}
    \cup {DocumentSteps[k] \o " " \o ToString(i) : k \in 1..3, i \in 1..2}

\* all subsets of S with at most n elements
RECURSIVE SetsUpTo(_, _)
SetsUpTo(S, n) ==
    IF n = 0 THEN {{}}
    ELSE LET smaller == SetsUpTo(S, n - 1)
         IN smaller \cup {F \cup {x} : F \in smaller, x \in S}

\* rows that DataExtractor.extract_companies can deliver
ExtractedCompanies ==
    {Company(n, h) : n \in {"Acme GmbH", "Acme Holding GmbH"},
                     h \in Opt({"HRB 259502", "HRB 777"})}
RunNames == {"Acme GmbH", "Acme 777"}
RunRegistrations == Opt({"259502", "hrb: 259502", "abc", "123456789"})

\* the document links of a row, and the document_types of a call
RowLinks == {<<>>, <<"AD">>, <<"HD">>, <<"AD", "CD", "HD">>}
RequestedTypes == {None, Some(<<"AD", "HD">>)}

\* the locals of run before line 44, for the arguments and environment given
RunFrames(names, registrations, types, rows, links, faults) ==
    [active : {TRUE},
     company_name : names,
     registration_number : registrations,
     document_types : types,
     env : [rows : rows, links : links, faults : faults],
     attempts : {0},
     matcher_calls : {0},
     browser : {NoBrowser},
     page_bound : {FALSE},
     exception : {None},
     handled : {FALSE},
     documents : {<<>>},
     doc : {0},
     result : {InitialResult}]

\* the state of the matcher's variables while run has not called it
RunStart ==
    /\ Constructed
    /\ pc = "run_enter"
    /\ search_name = ""
    /\ target_registration = None
    /\ companies = <<>>
    /\ Fresh

\* run(company_name, registration_number) on a site that works
InitRun ==
    /\ RunStart
    /\ run \in RunFrames(RunNames, RunRegistrations, {None},
                         {ExtractedCompanies}, {<<"AD", "CD", "HD">>}, {{}})

\* run("Acme GmbH", None, document_types) on a site where steps fail
InitFaults ==
    /\ RunStart
    /\ run \in RunFrames({"Acme GmbH"}, {None}, RequestedTypes,
                         {{Company("Acme GmbH", Some("HRB 259502"))}},
                         RowLinks, SetsUpTo(FaultPoints, MaxFaults))

\* run with a query of WideFloor core words; the only row has no
\* registration number
InitRunWide ==
    /\ RunStart
    /\ run \in RunFrames({WideQuery(WideFloor)}, {Some("1133")}, {None},
                         {{Company(WideName(WideFloor), None)}},
                         {<<"AD">>}, {{}})

\* the environment makes the step fail
Fails(step) == step \in run.env.faults

\* the first of the steps that fails, 0 if none does
FirstFault(steps) ==
    LET bad == {i \in 1..Len(steps) : Fails(steps[i])}
    IN IF bad = {} THEN 0 ELSE CHOOSE i \in bad : \A j \in bad : i <= j

\* the exception a failing step of the browser raises
BrowserError(step) == [type |-> "Error", message |-> step \o " failed"]

\* exceptions.py lines 1-19: the subclasses of ScraperException
IsScraperException(type) ==
    type \in {"ScraperException", "NavigationError", "NoResultsFoundError",
              "DownloadFailedError", "CompanyNotFoundError"}

\* browser_manager.py lines 14-21 (__aenter__); an exception leaves the
\* async with statement of line 54 without a call of __aexit__
RunEnter ==
    /\ pc = "run_enter"
    /\ LET failed == FirstFault(EnterSteps)
           done == IF failed = 0 THEN Len(EnterSteps) ELSE failed - 1
       IN /\ run' = [run EXCEPT
                 !.browser = [playwright |-> IF done >= 1 THEN "started"
                                              ELSE "none",
                              browser |-> IF done >= 2 THEN "open" ELSE "none",
                              page |-> IF done >= 3 THEN "open" ELSE "none"],
                 !.page_bound = (failed = 0),
                 !.exception = IF failed = 0 THEN None
                               ELSE Some(BrowserError(EnterSteps[failed]))]
          /\ pc' = IF failed = 0 THEN "run_navigate" ELSE "run_handle"
    /\ UNCHANGED <<search_name, companies, target_registration,
                   search_name_normalized, search_words, core_search_words,
                   idx, best_match, best_score, scored, ret,
                   call, matcher, other>>

\* lines 58-62 with navigator.py lines 12-59: go_to_homepage logs its
\* failure and goes on, the two other calls raise NavigationError
RunNavigate ==
    /\ pc = "run_navigate"
    /\ IF Fails("go_to_search_page")
       THEN /\ run' = [run EXCEPT !.exception =
                          Some([type |-> "NavigationError",
                                message |-> "Failed to navigate to search page: "
                                    \o BrowserError("go_to_search_page").message])]
            /\ pc' = "run_exit"
       ELSE IF Fails("perform_search")
       THEN /\ run' = [run EXCEPT !.exception =
                          Some([type |-> "NavigationError",
                                message |-> "Search failed: "
                                    \o BrowserError("perform_search").message])]
            /\ pc' = "run_exit"
       ELSE /\ pc' = "run_extract"
            /\ UNCHANGED run
    /\ UNCHANGED <<search_name, companies, target_registration,
                   search_name_normalized, search_words, core_search_words,
                   idx, best_match, best_score, scored, ret,
                   call, matcher, other>>

\* variant: a third retry
RetryExtractionFour(found, attempts) == found = <<>> /\ attempts < 4

\* the three extraction attempts stop at the first non-empty result
RetryExtraction(found, attempts) == found = <<>> /\ attempts < 3

\* lines 69, 76, 83: one call of extract_companies
RunExtract ==
    /\ pc = "run_extract"
    /\ \E found \in SeqsUpTo(run.env.rows, MaxCandidates) :
           /\ companies' = found
           /\ run' = [run EXCEPT !.attempts = @ + 1]
           /\ pc' = IF RetryExtraction(found, run.attempts + 1)
                    THEN "run_extract" ELSE "run_extracted"
    /\ UNCHANGED <<search_name, target_registration, search_name_normalized,
                   search_words, core_search_words, idx, best_match,
                   best_score, scored, ret,
                   call, matcher, other>>

\* lines 69, 76, 83: a call of extract_companies in which page.evaluate
\* (data_extractor.py line 19) raises
RunExtractFails ==
    /\ pc = "run_extract"
    /\ Fails("extract_companies")
    /\ run' = [run EXCEPT !.attempts = @ + 1,
                          !.exception = Some(BrowserError("extract_companies"))]
    /\ pc' = "run_exit"
    /\ UNCHANGED <<search_name, companies, target_registration,
                   search_name_normalized, search_words, core_search_words,
                   idx, best_match, best_score, scored, ret,
                   call, matcher, other>>

\* variant: the test for an empty list left out
NoCompaniesNever(found) == FALSE

\* line 86: if not companies
NoCompanies(found) == found = <<>>

\* lines 86-89
RunNoCompanies ==
    /\ pc = "run_extracted"
    /\ NoCompanies(companies)
    /\ run' = [run EXCEPT !.result.error = Some(NO_COMPANIES),
                          !.result.retry_recommended = TRUE]
    /\ pc' = "run_done"
    /\ UNCHANGED <<search_name, companies, target_registration,
                   search_name_normalized, search_words, core_search_words,
                   idx, best_match, best_score, scored, ret,
                   call, matcher, other>>

\* lines 92-96: the call of find_best_match
RunCallMatcher ==
    /\ pc = "run_extracted"
    /\ ~NoCompanies(companies)
    /\ search_name' = run.company_name
    /\ target_registration' =
           extract_hrb_from_input(run.company_name, run.registration_number)
    /\ run' = [run EXCEPT !.matcher_calls = @ + 1]
    /\ pc' = "call"
    /\ UNCHANGED <<companies, search_name_normalized, search_words,
                   core_search_words, idx, best_match, best_score, scored, ret,
                   call, matcher, other>>

\* lines 97-100
RunNoMatch ==
    /\ pc = "run_returned"
    /\ ret.index = 0
    /\ run' = [run EXCEPT !.result.error = Some(NO_MATCH),
                          !.result.retry_recommended = TRUE]
    /\ pc' = "run_done"
    /\ UNCHANGED <<search_name, companies, target_registration,
                   search_name_normalized, search_words, core_search_words,
                   idx, best_match, best_score, scored, ret,
                   call, matcher, other>>

\* variant: a match without registration number is reported for a retry
RunMatchedRetry ==
    /\ pc = "run_returned"
    /\ ret.index # 0
    /\ LET m == companies[ret.index]
           info == Some([name |-> m.name, hrb |-> m.hrb,
                         search_query |-> run.company_name])
       IN IF ~Truthy(m.hrb)
          THEN /\ run' = [run EXCEPT !.result.company_info = info,
                                     !.result.error = Some(NoRegistration(m.name)),
                                     !.result.retry_recommended = TRUE]
               /\ pc' = "run_done"
          ELSE /\ run' = [run EXCEPT !.result.company_info = info]
               /\ pc' = "run_documents"
    /\ UNCHANGED <<search_name, companies, target_registration,
                   search_name_normalized, search_words, core_search_words,
                   idx, best_match, best_score, scored, ret,
                   call, matcher, other>>

\* lines 102-113
RunMatched ==
    /\ pc = "run_returned"
    /\ ret.index # 0
    /\ LET m == companies[ret.index]
           info == Some([name |-> m.name, hrb |-> m.hrb,
                         search_query |-> run.company_name])
       IN IF ~Truthy(m.hrb)
          THEN /\ run' = [run EXCEPT !.result.company_info = info,
                                     !.result.error = Some(NoRegistration(m.name)),
                                     !.result.retry_recommended = FALSE]
               /\ pc' = "run_done"
          ELSE /\ run' = [run EXCEPT !.result.company_info = info]
               /\ pc' = "run_documents"
    /\ UNCHANGED <<search_name, companies, target_registration,
                   search_name_normalized, search_words, core_search_words,
                   idx, best_match, best_score, scored, ret,
                   call, matcher, other>>

\* data_extractor.py lines 143-147
requested_types(document_types) ==
    IF document_types = None THEN <<"AD", "CD">> ELSE document_types[1]

\* data_extractor.py lines 164-173: the first k links of the rows, those
\* with a requested text kept
RECURSIVE RequestedLinks(_, _, _)
RequestedLinks(links, requested, k) ==
    IF k = 0 THEN <<>>
    ELSE LET before == RequestedLinks(links, requested, k - 1)
         IN IF links[k] \in Range(requested)
            THEN Append(before, links[k]) ELSE before

\* data_extractor.py lines 180-189
Document(text, company) ==
    [id |-> "j_idt_" \o text, text |-> text, doc_type |-> text,
     company_name |-> company.name, link_id |-> "j_idt_" \o text]

\* data_extractor.py lines 130-191, for the links of the rows that carry
\* company.hrb
extract_documents_for_company(company, document_types, links) ==
    IF ~Truthy(company.hrb) THEN <<>>
    ELSE LET kept == RequestedLinks(links, requested_types(document_types),
                                    Len(links))
         IN [i \in 1..Len(kept) |-> Document(kept[i], company)]

\* lines 116-129
RunDocuments ==
    /\ pc = "run_documents"
    /\ LET best == companies[ret.index]
           documents == extract_documents_for_company(
                            best, run.document_types, run.env.links)
           failed == [run EXCEPT
                         !.result.error =
                             Some(NoDocuments(best.name, run.document_types)),
                         !.result.retry_recommended = TRUE]
       IN IF Fails("extract_documents_for_company")
          THEN /\ run' = [run EXCEPT !.exception =
                             Some(BrowserError("extract_documents_for_company"))]
               /\ pc' = "run_exit"
          ELSE IF documents # <<>>
          THEN /\ run' = [run EXCEPT !.documents = documents, !.doc = 0]
               /\ pc' = "run_process"
          ELSE IF Fails("get_ui_messages")
          THEN /\ run' = [failed EXCEPT !.exception =
                             Some(BrowserError("get_ui_messages"))]
               /\ pc' = "run_exit"
          ELSE /\ run' = [failed EXCEPT !.result.debug_info =
                             [keys |-> {"screenshot_saved", "html_saved",
                                        "ui_messages"},
                              document_errors |-> <<>>]]
               /\ pc' = "run_exit"
    /\ UNCHANGED <<search_name, companies, target_registration,
                   search_name_normalized, search_words, core_search_words,
                   idx, best_match, best_score, scored, ret,
                   call, matcher, other>>

\* lines 157-163; the markdown is the conversion of the bytes, or the
\* report of its failure (pdf_extractor.py lines 77-79 and 132-134)
document_data(best, doc, converted) ==
    [doc_type |-> doc.doc_type,
     pdf_content |-> "bytes of " \o doc.link_id,
     pdf_filename |-> best.name \o "_" \o doc.doc_type \o ".pdf",
     markdown_content |-> IF converted THEN "markdown of " \o doc.link_id
                          ELSE "Errors",
     markdown_filename |-> best.name \o "_" \o doc.doc_type \o ".md"]

\* lines 132-182: one iteration of the loop over the documents
RunProcess ==
    /\ pc = "run_process"
    /\ run.doc < Len(run.documents)
    /\ LET n == run.doc + 1
           doc == run.documents[n]
           step(k) == DocumentSteps[k] \o " " \o ToString(n)
       IN IF Fails(step(1))
          THEN /\ run' = [run EXCEPT
                     !.doc = n,
                     !.result.debug_info.document_errors =
                         Append(@, [doc_type |-> doc.doc_type,
                                    error |-> "Download failed for link ID "
                                        \o doc.link_id \o ": "
                                        \o BrowserError("download_document").message])]
               /\ pc' = "run_process"
          ELSE IF Fails(step(2))
          THEN /\ run' = [run EXCEPT !.doc = n,
                                     !.exception = Some(BrowserError("save_as"))]
               /\ pc' = "run_exit"
          ELSE /\ run' = [run EXCEPT
                     !.doc = n,
                     !.result.documents =
                         Append(@, document_data(companies[ret.index], doc,
                                                 ~Fails(step(3))))]
               /\ pc' = "run_process"
    /\ UNCHANGED <<search_name, companies, target_registration,
                   search_name_normalized, search_words, core_search_words,
                   idx, best_match, best_score, scored, ret,
                   call, matcher, other>>

\* lines 184-190
RunFinish ==
    /\ pc = "run_process"
    /\ run.doc = Len(run.documents)
    /\ IF run.result.documents # <<>>
       THEN run' = [run EXCEPT !.result.success = TRUE]
       ELSE run' = [run EXCEPT !.result.error = Some(NO_DOCUMENT_PROCESSED),
                               !.result.retry_recommended = TRUE]
    /\ pc' = "run_exit"
    /\ UNCHANGED <<search_name, companies, target_registration,
                   search_name_normalized, search_words, core_search_words,
                   idx, best_match, best_score, scored, ret,
                   call, matcher, other>>

\* the exception that is leaving the body of the async with statement
Pending ==
    IF ret.kind = "exception"
    THEN Some([type |-> ret.type, message |-> "float division by zero"])
    ELSE run.exception

\* browser_manager.py lines 23-30 (__aexit__), called when a return
\* statement or an exception leaves the body of line 54; a close that
\* raises leaves the later ones undone, and its exception replaces the
\* return or the exception that was leaving
RunExit ==
    /\ pc \in {"run_done", "run_exit"}
    /\ LET failed == FirstFault(ExitSteps)
           done == IF failed = 0 THEN Len(ExitSteps) ELSE failed - 1
           leaving == IF failed = 0 THEN Pending
                      ELSE Some(BrowserError(ExitSteps[failed]))
       IN /\ run' = [run EXCEPT
                 !.browser = [page |-> IF done >= 1 THEN "closed" ELSE "open",
                              browser |-> IF done >= 2 THEN "closed" ELSE "open",
                              playwright |-> IF done >= 3 THEN "stopped"
                                              ELSE "started"],
                 !.exception = leaving]
          /\ pc' = IF leaving = None THEN "run_end" ELSE "run_handle"
    /\ UNCHANGED <<search_name, companies, target_registration,
                   search_name_normalized, search_words, core_search_words,
                   idx, best_match, best_score, scored, ret,
                   call, matcher, other>>

\* lines 192-205: the two except clauses and the return
RunHandle ==
    /\ pc = "run_handle"
    /\ LET e == run.exception[1]
       IN IF IsScraperException(e.type)
          THEN run' = [run EXCEPT
                   !.handled = TRUE,
                   !.result.error = Some("Scraper error: " \o e.message),
                   !.result.retry_recommended = TRUE]
          ELSE run' = [run EXCEPT
                   !.handled = TRUE,
                   !.result.error = Some("Unexpected error: " \o e.message),
                   !.result.retry_recommended = TRUE,
                   !.result.debug_info.keys =
                       IF run.page_bound
                       THEN @ \cup {"error_screenshot_saved"} ELSE @]
    /\ pc' = "run_end"
    /\ UNCHANGED <<search_name, companies, target_registration,
                   search_name_normalized, search_words, core_search_words,
                   idx, best_match, best_score, scored, ret,
                   call, matcher, other>>

NextRun ==
    \/ RunEnter \/ RunNavigate
    \/ RunExtract \/ RunExtractFails \/ RunNoCompanies \/ RunCallMatcher
    \/ Begin \/ ScoreCandidate \/ Return
    \/ RunNoMatch \/ RunMatched
    \/ RunDocuments \/ RunProcess \/ RunFinish
    \/ RunExit \/ RunHandle

InitRuns == InitRun \/ InitFaults \/ InitRunWide

SpecRun == InitRuns /\ [][NextRun]_vars

-----------------------------------------------------------------------------
(* Properties of find_best_match.                                          *)

Returned == pc = "done" /\ ret.kind = "company"
Winner == ret.index
WasScored(j) == j \in 1..Len(scored) /\ ~scored[j].skipped
ScoredSet == {j \in 1..Len(scored) : ~scored[j].skipped}
Positive(r) == RLess(RInt(0), r)

\* C1: a returned candidate has the maximal finalScore of all scored
\* candidates and is the first candidate of the list with that score; the
\* result is fixed by the scores, hence by the arguments.
C1_MaxFirst ==
    (Returned /\ Winner # 0) =>
        /\ WasScored(Winner)
        /\ \A j \in ScoredSet :
               RLeq(scored[j].final_score, scored[Winner].final_score)
        /\ \A j \in ScoredSet :
               j < Winner =>
                   RLess(scored[j].final_score, scored[Winner].final_score)

C1_Witness ==
    /\ Returned
    /\ Winner = 1
    /\ WasScored(2)
    /\ scored[2].final_score = scored[1].final_score

\* the canonical name of candidate j equals that of the query
ExactName(j) == WasScored(j) /\ scored[j].company_normalized = search_name_normalized

\* C3 (as claimed): when neither the query nor any candidate carries an
\* identifier, the candidate with the highest nameScore (first on ties) is
\* returned, not "no match".
C3_NoIdentifierWins ==
    (/\ Returned
     /\ ScoredSet # {}
     /\ ~Truthy(target_registration)
     /\ \A j \in 1..Len(companies) : ~Truthy(companies[j].hrb)) =>
        /\ Winner \in ScoredSet
        /\ \A j \in ScoredSet :
               /\ RLeq(scored[j].name_score, scored[Winner].name_score)
               /\ j < Winner =>
                      RLess(scored[j].name_score, scored[Winner].name_score)

\* C4 (as claimed): a query identifier with similarity 0 to every candidate
\* and exactly one candidate with the query's canonical name: that candidate
\* is returned.
C4_Fallback ==
    (/\ Returned
     /\ Truthy(target_registration)
     /\ \A j \in 1..Len(companies) :
            calculate_registration_similarity(target_registration,
                                              companies[j].hrb) = RInt(0)
     /\ Cardinality({j \in ScoredSet : ExactName(j)}) = 1) =>
        (Winner # 0 /\ ExactName(Winner))

\* r = num / den, for a rational r and integers num, den with den > 0
IsQuotient(r, num, den) == r[1] * den = r[2] * num

\* C7's registrationBonus, from the identifiers of the query and a candidate
ClaimedBonus(target, hrb) ==
    IF ~Truthy(hrb) THEN -50
    ELSE IF ~Truthy(target) THEN 100
    ELSE LET sim == calculate_registration_similarity(target, hrb)
             n == sim[1]
             d == sim[2]
         IN IF 100 * n >= 95 * d THEN 1000
            ELSE IF 10 * n >= 8 * d THEN 800
            ELSE IF 10 * n >= 6 * d THEN 500
            ELSE IF 10 * n >= 4 * d THEN 200
            ELSE 50

\* C7: for every scored candidate, registrationBonus is -50 without a
\* candidate identifier, +100 with one when the query has none, else the
\* tier of the registration similarity (1000, 800, 500, 200, 50 at the
\* thresholds 0.95, 0.8, 0.6, 0.4), and finalScore = registrationBonus +
\* 0.1 x nameScore.
C7_ScoreFormula ==
    \A j \in ScoredSet :
        LET b == scored[j].registration_bonus
            ns == scored[j].name_score
        IN /\ b = ClaimedBonus(target_registration, companies[j].hrb)
           /\ IsQuotient(scored[j].final_score,
                         10 * b * ns[2] + ns[1], 10 * ns[2])

C7_Witness ==
    /\ Returned
    /\ Winner = 1
    /\ scored[1].registration_bonus = 500
    /\ scored[1].name_score = RInt(100)

\* the whitespace-separated tokens of a canonical name
ClaimTokens(x) ==
    LET n == Len(x)
        spans == {p \in (1..n) \X (1..n) :
                     /\ p[1] <= p[2]
                     /\ \A k \in p[1]..p[2] : CharAt(x, k) # " "
                     /\ (p[1] = 1 \/ CharAt(x, p[1] - 1) = " ")
                     /\ (p[2] = n \/ CharAt(x, p[2] + 1) = " ")}
    IN {SubSeq(x, p[1], p[2]) : p \in spans}

LegalFormAbbreviations ==
    {"ag", "gmbh", "ohg", "kg", "ev", "eg", "gbr", "partg", "ewiv", "se"}

ClaimCoreWords(x) == ClaimTokens(x) \ LegalFormAbbreviations

MaxOf(a, b) == IF a >= b THEN a ELSE b

\* rules (3) to (6) of C8
ClaimLowerRules(r, q, c) ==
    LET common == ClaimTokens(q) \cap ClaimTokens(c)
    IN IF Contains(c, q) THEN IsQuotient(r, 90 * Len(c) + 5 * Len(q), Len(c))
       ELSE IF Contains(q, c) THEN IsQuotient(r, 80 * Len(q) + 5 * Len(c), Len(q))
       ELSE IF common # {}
            THEN IsQuotient(r, 60 * Cardinality(common),
                            MaxOf(Cardinality(ClaimTokens(q)),
                                  Cardinality(ClaimTokens(c))))
       ELSE r = RInt(0)

\* r is the nameScore of C8 for query q and candidate c; rule (2) applies
\* to every query when anyCore is FALSE, only to queries with at least one
\* core word when anyCore is TRUE
ClaimNameScore(r, q, c, anyCore) ==
    IF q = c THEN r = RInt(100)
    ELSE IF /\ anyCore => ClaimCoreWords(q) # {}
            /\ \A w \in ClaimCoreWords(q) : Contains(c, w)
         THEN r = RInt(95 + Cardinality(ClaimCoreWords(q)))
    ELSE ClaimLowerRules(r, q, c)

\* C8 (as claimed): nameScore follows the six ordered rules for every pair of
\* canonical names, a query without core words included (rule 2 then holds
\* vacuously and gives 95).
C8_AsClaimed ==
    \A j \in ScoredSet :
        ClaimNameScore(scored[j].name_score, search_name_normalized,
                       scored[j].company_normalized, FALSE)

\* C8 (amended): nameScore follows the six ordered rules, rule 2 applying
\* only when the query has at least one core word.
C8_Amended ==
    \A j \in ScoredSet :
        ClaimNameScore(scored[j].name_score, search_name_normalized,
                       scored[j].company_normalized, TRUE)

C8_Witness ==
    /\ Returned
    /\ WasScored(1)
    /\ search_words # {}
    /\ core_search_words = {}
    /\ scored[1].company_normalized # search_name_normalized
    /\ Contains(scored[1].company_normalized, search_name_normalized)
    /\ Winner = 1

\* C9 (as claimed): every computed nameScore lies in [0, 100].
C9_Range ==
    \A j \in ScoredSet :
        /\ RLeq(RInt(0), scored[j].name_score)
        /\ RLeq(scored[j].name_score, RInt(100))

\* length of a longest common subsequence, by the textbook recursion
RECURSIVE ClaimLCS(_, _)
ClaimLCS(a, b) ==
    IF a = "" \/ b = "" THEN 0
    ELSE LET a0 == SubSeq(a, 1, Len(a) - 1)
             b0 == SubSeq(b, 1, Len(b) - 1)
         IN IF CharAt(a, Len(a)) = CharAt(b, Len(b))
            THEN 1 + ClaimLCS(a0, b0)
            ELSE MaxOf(ClaimLCS(a0, b), ClaimLCS(a, b0))

\* r = max(x / dx, y / dy), a ratio with denominator 0 counting as 0
IsMaxOfRatios(r, x, dx, y, dy) ==
    LET x1 == IF dx = 0 THEN 0 ELSE x
        d1 == IF dx = 0 THEN 1 ELSE dx
        y1 == IF dy = 0 THEN 0 ELSE y
        d2 == IF dy = 0 THEN 1 ELSE dy
    IN IF x1 * d2 >= y1 * d1 THEN IsQuotient(r, x1, d1) ELSE IsQuotient(r, y1, d2)

ClaimSimilarity(r, t, h) ==
    IF ~Truthy(t) \/ ~Truthy(h) THEN r = RInt(0)
    ELSE LET a == RemoveSpaces(Upper(t[1]))
             b == RemoveSpaces(Upper(h[1]))
             da == DigitsOnly(a)
             db == DigitsOnly(b)
         IN IF a = b THEN r = RInt(1)
            ELSE IF Contains(a, b) \/ Contains(b, a) THEN IsQuotient(r, 9, 10)
            ELSE IF da = db THEN IsQuotient(r, 95, 100)
            ELSE IsMaxOfRatios(r, ClaimLCS(a, b), MaxOf(Len(a), Len(b)),
                               ClaimLCS(da, db), MaxOf(Len(da), Len(db)))

\* C10: the registration similarity is 1.0 for equal normalized identifiers,
\* else 0.9 when one contains the other, else 0.95 when the digit-only
\* projections are equal, else the larger of the two LCS ratios; it is 0.0
\* when an identifier is missing, and always within [0, 1].
C10_Similarity ==
    (pc = "done" /\ ret.kind = "similarity") =>
        /\ ClaimSimilarity(ret.value, target_registration, companies[1].hrb)
        /\ RLeq(RInt(0), ret.value)
        /\ RLeq(ret.value, RInt(1))

C10_Witness ==
    /\ pc = "done"
    /\ ret.kind = "similarity"
    /\ ret.value = Rat(2, 3)
    /\ DigitsOnly(target_registration[1]) # ""

\* C2 (as claimed): with a query identifier, a candidate with a strictly
\* higher registration bonus tier than another has the strictly higher
\* finalScore, whatever the names.
C2_Dominance ==
    Truthy(target_registration) =>
        \A i \in ScoredSet : \A j \in ScoredSet :
            (/\ Truthy(companies[i].hrb)
             /\ Truthy(companies[j].hrb)
             /\ scored[i].registration_bonus > scored[j].registration_bonus) =>
                RLess(scored[j].final_score, scored[i].final_score)

\* C6 (as claimed): for a non-empty candidate list, no match is reported
\* exactly when no candidate has finalScore > 0, and a returned candidate has
\* finalScore > 0.
C6_Floor ==
    (Returned /\ companies # <<>>) =>
        /\ (Winner = 0) <=> (\A j \in ScoredSet : ~Positive(scored[j].final_score))
        /\ Winner # 0 => Positive(scored[Winner].final_score)

-----------------------------------------------------------------------------
(* Properties of ScraperApp.run.                                           *)

\* every extraction attempt of the finished run returned no candidate
EndedWithoutCandidates == pc = "run_done" /\ companies = <<>>

-----------------------------------------------------------------------------
(* Properties of the helper methods called directly.                       *)

\* x is a subsequence of y
RECURSIVE IsSubsequence(_, _)
IsSubsequence(x, y) ==
    IF x = "" THEN TRUE
    ELSE IF y = "" THEN FALSE
    ELSE IF CharAt(x, 1) = CharAt(y, 1)
         THEN IsSubsequence(SubSeq(x, 2, Len(x)), SubSeq(y, 2, Len(y)))
         ELSE IsSubsequence(x, SubSeq(y, 2, Len(y)))

\* the characters of x at the positions in keep, in order
RECURSIVE Pick(_, _, _)
Pick(x, keep, i) ==
    IF i > Len(x) THEN ""
    ELSE (IF i \in keep THEN CharAt(x, i) ELSE "") \o Pick(x, keep, i + 1)

\* the lengths of the common subsequences of x and y
CommonLengths(x, y) ==
    {Cardinality(keep) : keep \in {k \in SUBSET (1..Len(x)) :
                                       IsSubsequence(Pick(x, k, 1), y)}}

LcsReturned == pc = "done" /\ ret.kind = "length"

\* C11: _longest_common_subsequence(s1, s2) is the length of a longest
\* common subsequence of s1 and s2 (empty strings included); it is symmetric
\* in its arguments, at most min(len(s1), len(s2)), and len(s) for (s, s).
C11_Lcs ==
    LcsReturned =>
        /\ ret.value \in CommonLengths(call.s1, call.s2)
        /\ \A n \in CommonLengths(call.s1, call.s2) : n <= ret.value
        /\ ret.value = longest_common_subsequence(call.s2, call.s1)
        /\ ret.value <= Len(call.s1)
        /\ ret.value <= Len(call.s2)
        /\ call.s1 = call.s2 => ret.value = Len(call.s1)

C11_Witness ==
    /\ LcsReturned
    /\ call.s1 = "12H"
    /\ call.s2 = "H21"
    /\ ret.value = 1

NormalizeReturned == pc = "done" /\ ret.kind = "name"

\* C12 (as claimed): normalize_company_name(normalize_company_name(x)) =
\* normalize_company_name(x) for every string x.
C12_Idempotent ==
    NormalizeReturned => normalize_company_name(ret.value) = ret.value

\* the legal forms of the table, and the form of the documented example
ClaimLegalForms ==
    {CompanyMatcher.legal_form_mappings[k] :
         k \in 1..Len(CompanyMatcher.legal_form_mappings)}
    \cup {<<"Aktiengesellschaft", "AG">>}

\* C13 (as claimed): a name written with a legal form's full name has the
\* canonical form of the name written with the abbreviation, for every entry
\* of the table and for "Acme Aktiengesellschaft" against "Acme AG".
C13_Folding ==
    NormalizeReturned =>
        \A form \in ClaimLegalForms :
            call.name = NormalizeBase \o " " \o form[1] =>
                ret.value = normalize_company_name(NormalizeBase \o " " \o form[2])

\* C14 (as claimed): a name with a noise word of the table added has the
\* canonical form of the name without it, and no noise word is a token of
\* a canonical form.
C14_NoiseRemoved ==
    NormalizeReturned =>
        /\ \A k \in 1..Len(noise_words) :
               call.name = NormalizeBase \o " " \o noise_words[k] =>
                   ret.value = normalize_company_name(NormalizeBase)
        /\ \A k \in 1..Len(noise_words) :
               noise_words[k] \notin ClaimTokens(ret.value)

\* an explicit identifier was parsed
ExtractReturned ==
    pc = "done" /\ ret.kind = "registration" /\ Truthy(call.registration_number)

\* C15 (as claimed): "HRB 259502", "hrb: 259502", "HRB: 259502",
\* "HRB 259 502" and "259502" all parse to registry type HRB, number 259502,
\* no suffix.
C15_SameIdentifier ==
    (/\ ExtractReturned
     /\ call.registration_number[1] \in
            {"HRB 259502", "hrb: 259502", "HRB: 259502", "HRB 259 502",
             "259502"}) =>
        ret.value = Some("HRB 259502")

\* the registry types of the specification
ClaimPrefixes ==
    {"HRB", "HRA", "PR", "GNR", "VR", "GUR", "EWIV", "SE", "SCE", "SPE"}

\* y begins with p
StartsWith(y, p) == Len(p) <= Len(y) /\ SubSeq(y, 1, Len(p)) = p

\* y without its first n characters
Drop(y, n) == SubSeq(y, n + 1, Len(y))

\* y is 1 to 8 digits and then at most one letter
ClaimShape(y) ==
    LET digits == {i \in 1..Len(y) : IsDigit(CharAt(y, i))}
        letters == {i \in 1..Len(y) : IsAsciiLetter(CharAt(y, i))}
    IN /\ Cardinality(digits) \in 1..8
       /\ digits = 1..Cardinality(digits)
       /\ digits \cup letters = 1..Len(y)
       /\ Cardinality(letters) <= 1

\* the readings of x as registry type, ':' and remainder, whitespace and
\* letter case set aside (type "" for no prefix)
ClaimReadings(x) ==
    LET y == RemoveSpaces(Upper(x))
    IN {<<p, Drop(y, Len(p))>> : p \in {q \in ClaimPrefixes : StartsWith(y, q)}}
       \cup {<<p, Drop(y, Len(p) + 1)>> :
                 p \in {q \in ClaimPrefixes : StartsWith(y, q \o ":")}}
       \cup {<<"", y>>}

C17_EveryPrefix ==
    ExtractReturned =>
        \A p \in ExplicitPrefixes : \A sep \in ExplicitSeparators :
            \A digits \in {"259502", "1", "12345678"} :
                (/\ Upper(p) \in ClaimPrefixes
                 /\ call.registration_number[1] = p \o sep \o digits) =>
                    ret.value = Some(Upper(p) \o " " \o digits)

-----------------------------------------------------------------------------
(* Properties of ScraperApp.run: the identifier handed to the matcher.     *)

\* find_best_match has been called by run
MatcherCalled == run.active /\ run.matcher_calls = 1

\* the explicit identifier of the run fails the digit-shape check
InvalidIdentifier ==
    /\ run.active
    /\ Truthy(run.registration_number)
    /\ \A r \in ClaimReadings(run.registration_number[1]) : ~ClaimShape(r[2])

\* C18: an explicit identifier that fails the digit-shape check is treated
\* as "no identifier supplied": the matcher is called with target None, the
\* candidates are scored by name and +100/-50 only, and a candidate list
\* that holds an identifier still yields a match.
C18_InvalidIsAbsent ==
    (InvalidIdentifier /\ MatcherCalled) =>
        /\ target_registration = None
        /\ \A j \in ScoredSet : scored[j].registration_bonus \in {100, -50}
        /\ (/\ pc = "run_returned"
            /\ \E j \in 1..Len(companies) : Truthy(companies[j].hrb)) =>
               ret.index # 0
        /\ pc = "run_done" =>
               run.result.error \in
                   {Some(NO_MATCH)}
                   \cup {Some(NoRegistration(companies[j].name)) :
                             j \in 1..Len(companies)}

C18_Witness ==
    /\ InvalidIdentifier
    /\ run.registration_number = Some("abc")
    /\ run.company_name = "Acme 777"
    /\ pc = "run_documents"
    /\ target_registration = None

\* C19 (as claimed): a run without registration number hands the matcher
\* the target None, whatever the company name, and every candidate with an
\* identifier gets the bonus +100.
C19_NameOnly ==
    (MatcherCalled /\ run.registration_number = None) =>
        /\ target_registration = None
        /\ \A j \in ScoredSet :
               Truthy(companies[j].hrb) => scored[j].registration_bonus = 100

-----------------------------------------------------------------------------
(* Properties of find_best_match: what it leaves alone.                    *)

\* final_score of candidate j of the list cs for the query q and target t
SoloScore(q, cs, t, j) ==
    LET qn == normalize_company_name(q)
        sw == SplitWords(qn)
    IN final_score(registration_bonus(t, cs[j].hrb),
                   name_score(qn, sw, sw \ legal_forms,
                              normalize_company_name(cs[j].name)))

\* the index find_best_match(q, cs, t) returns when it runs alone
SoloResult(q, cs, t) ==
    LET eligible == {j \in 1..Len(cs) :
                        /\ cs[j].name # ""
                        /\ RLess(RInt(-1), SoloScore(q, cs, t, j))}
    IN IF eligible = {} THEN 0
       ELSE CHOOSE j \in eligible :
                \A k \in eligible :
                    \/ RLess(SoloScore(q, cs, t, k), SoloScore(q, cs, t, j))
                    \/ SoloScore(q, cs, t, k) = SoloScore(q, cs, t, j) /\ j <= k

SoloOf(a) == SoloResult(a.search_name, a.companies, a.target_registration)

\* the running call of the pair and the suspended one
Running == 3 - other.id
BothReturned ==
    /\ other.active
    /\ pc = "done"
    /\ other.pc = "done"

\* C20: find_best_match leaves the candidate list of each call as it was
\* passed (length, order, names, identifiers) and the tables of the
\* matcher as __init__ built them; what it returns is a position of the
\* input list; two interleaved calls return what each returns alone.
C20_Frame ==
    other.active =>
        /\ matcher = CompanyMatcher
        /\ companies = call.args[Running].companies
        /\ other.companies = call.args[other.id].companies
        /\ pc = "done" =>
               /\ ret.index \in 0..Len(call.args[Running].companies)
               /\ ret.index = SoloOf(call.args[Running])
        /\ other.pc = "done" =>
               /\ other.ret.index \in 0..Len(call.args[other.id].companies)
               /\ other.ret.index = SoloOf(call.args[other.id])

C20_Witness ==
    /\ BothReturned
    /\ other.interleaved
    /\ call.args[1] # call.args[2]
    /\ ret.index # 0
    /\ other.ret.index # 0
    /\ companies[ret.index] # other.companies[other.ret.index]

-----------------------------------------------------------------------------
(* Properties of find_best_match: completion.                              *)

\* a call of find_best_match that is not run's
MatchCall == ~run.active /\ pc \in {"call", "loop", "done", "raised"}

\* C21: find_best_match completes without raising for every query and
\* every candidate list, duplicates and names with an empty canonical form
\* included: no division of lines 128, 131, 136 has a zero divisor, and the
\* loop stays inside the list until the return.
C21_NoCrash ==
    MatchCall =>
        /\ pc # "raised"
        /\ ret.kind # "exception"
        /\ pc = "loop" => idx <= Len(companies)
        /\ \A j \in ScoredSet :
               name_score_divisor(search_name_normalized, search_words,
                                  core_search_words,
                                  scored[j].company_normalized) > 0

C21_Witness ==
    /\ Returned
    /\ Len(companies) = 2
    /\ companies[1] = companies[2]
    /\ search_name_normalized = ""
    /\ ScoredSet = {1, 2}
    /\ scored[1].company_normalized = ""

-----------------------------------------------------------------------------
(* Properties of ScraperApp.run: the returned result.                      *)

\* run has returned its result dictionary to the caller
RunEnded == run.active /\ pc = "run_end"
Error == run.result.error

\* C22 (as claimed): run returns a result dictionary on every path, and a
\* run in which the failure of a step reached the except clauses of lines
\* 192-203 returns success False with a non-empty error.
C22_NoPropagation ==
    /\ run.active => pc # "raised"
    /\ (RunEnded /\ run.handled) =>
           /\ ~run.result.success
           /\ Error # None
           /\ Error[1] # ""

\* C23: extract_companies is called at most three times; a call after the
\* first is made only while every earlier call returned no candidate and the
\* matcher has not been called; find_best_match only gets a non-empty list;
\* three empty results end in a failure with retry_recommended True and no
\* call of the matcher.
C23_Retry ==
    /\ [](run.active =>
            /\ run.attempts <= 3
            /\ run.matcher_calls > 0 => companies # <<>>
            /\ (pc = "run_done" /\ run.attempts = 3 /\ companies = <<>>) =>
                   Error = Some(NO_COMPANIES)
            /\ (RunEnded /\ run.attempts = 3 /\ companies = <<>>) =>
                   /\ ~run.result.success
                   /\ Error # None
                   /\ run.result.retry_recommended
                   /\ run.matcher_calls = 0)
    /\ [][(run.active /\ run'.attempts # run.attempts) =>
             /\ run'.attempts = run.attempts + 1
             /\ companies = <<>>
             /\ run.matcher_calls = 0]_vars

C23_Witness ==
    /\ RunEnded
    /\ run.attempts = 3
    /\ companies # <<>>
    /\ run.matcher_calls = 1
    /\ run.result.success

\* the types of a sequence of documents
TypesOf(documents) == {documents[i].doc_type : i \in 1..Len(documents)}

\* C24 (as claimed): without document_types the documents to download are
\* those of every type the row offers; with document_types every document
\* is of a requested type.
C24_AllTypes ==
    /\ (run.active /\ pc = "run_process") =>
           IF run.document_types = None
           THEN TypesOf(run.documents)
                    = Range(run.env.links) \cap Range(DocumentType)
           ELSE TypesOf(run.documents) \subseteq Range(run.document_types[1])
    /\ (RunEnded /\ ~run.handled /\ run.document_types = None
            /\ run.result.company_info # None
            /\ Error = Some(NoDocuments(run.result.company_info[1].name, None))) =>
           Range(run.env.links) \cap Range(DocumentType) = {}
    /\ (RunEnded /\ run.document_types # None) =>
           TypesOf(run.result.documents) \subseteq Range(run.document_types[1])

\* the failure "matched company without registration number"
NoRegistrationFailure ==
    /\ run.result.company_info # None
    /\ ~Truthy(run.result.company_info[1].hrb)
    /\ Error = Some(NoRegistration(run.result.company_info[1].name))

\* C25: in a failing result retry_recommended is False exactly when the
\* failure is that of a matched company without registration number, with
\* company_info filled in; every other failure has retry_recommended True.
C25_Retry ==
    (RunEnded /\ ~run.result.success) =>
        /\ Error # None
        /\ run.result.retry_recommended <=> ~NoRegistrationFailure

C25_Witness ==
    /\ RunEnded
    /\ ~run.result.success
    /\ NoRegistrationFailure
    /\ ~run.result.retry_recommended

\* C26 (as claimed): in every returned result success is True exactly when
\* error is None, and success True comes with at least one document and a
\* company_info that holds a registration number.
C26_Consistent ==
    RunEnded =>
        /\ run.result.success <=> Error = None
        /\ run.result.success =>
               /\ run.result.documents # <<>>
               /\ run.result.company_info # None
               /\ Truthy(run.result.company_info[1].hrb)

\* C27 (as claimed): when run returns, the Playwright driver, the browser
\* and the page that BrowserManager started are stopped or closed.
C27_Closed ==
    RunEnded =>
        /\ run.browser.playwright \in {"none", "stopped"}
        /\ run.browser.browser \in {"none", "closed"}
        /\ run.browser.page \in {"none", "closed"}

-----------------------------------------------------------------------------
(* Properties of find_best_match: the exact match.                         *)

\* C28 (as claimed): a candidate whose canonical name equals the query's has
\* a higher name_score than one whose canonical name differs, and with equal
\* registration bonuses a candidate of the first kind is returned, whatever
\* the order of the list.
C28_ExactOutranks ==
    (Returned /\ ~run.active) =>
        /\ \A j \in ScoredSet, k \in ScoredSet :
               (ExactName(j) /\ ~ExactName(k)) =>
                   RLess(scored[k].name_score, scored[j].name_score)
        /\ (/\ \E j \in ScoredSet : ExactName(j)
            /\ \A j \in ScoredSet, k \in ScoredSet :
                   scored[j].registration_bonus = scored[k].registration_bonus
            /\ Winner # 0) =>
               ExactName(Winner)

-----------------------------------------------------------------------------
(* Properties of _calculate_registration_similarity: the top tier.         *)

SimilarityReturned == pc = "done" /\ ret.kind = "similarity"

\* C29 (as claimed): a similarity of 0.95 or more is returned only for two
\* identifiers whose digits are the same and not empty, and 1.0 only for
\* two identifiers with the same normalized string.
C29_TopTier ==
    (SimilarityReturned /\ Truthy(target_registration)
         /\ Truthy(companies[1].hrb)) =>
        LET a == normalize_registration_number(target_registration[1])
            b == normalize_registration_number(companies[1].hrb[1])
        IN /\ RLeq(Rat(95, 100), ret.value) =>
                  /\ DigitsOnly(a) = DigitsOnly(b)
                  /\ DigitsOnly(a) # ""
           /\ ret.value = RInt(1) => a = b

-----------------------------------------------------------------------------
(* Properties of _extract_hrb_from_input: the result as an input.          *)

\* s is a prefix of the code's list, one space, 1 to 8 digits and at most
\* one upper-case letter
OutputShape(s) ==
    \E i \in 1..Len(ALL_REGISTRATION_PREFIXES) :
        LET p == ALL_REGISTRATION_PREFIXES[i] \o " "
        IN /\ StartsWith(s, p)
           /\ ClaimShape(Drop(s, Len(p)))
           /\ Drop(s, Len(p)) = Upper(Drop(s, Len(p)))

\* C30: a string that _extract_hrb_from_input("", r) returns for an explicit
\* identifier r is a recognized prefix, a space, 1 to 8 digits and at most
\* one upper-case letter, and parsing it again returns it unchanged.
C30_Idempotent ==
    (ExtractReturned /\ call.company_name = "" /\ ret.value # None) =>
        /\ OutputShape(ret.value[1])
        /\ extract_hrb_from_input("", ret.value) = ret.value

C30_Witness ==
    /\ ExtractReturned
    /\ call.company_name = ""
    /\ call.registration_number = Some("sce259 502 a")
    /\ ret.value = Some("SCE 259502A")

====
